---------------------------- MODULE Spec2Model ----------------------------
(***************************************************************************)
(* The column-chunk writer of pixels-core (writer/ColumnWriter.cpp): the   *)
(* pixel / chunk lifecycle newPixel, flush, reset, close, the null-bitmap  *)
(* packing, the alignment padding and the index bookkeeping.               *)
(*                                                                         *)
(* The ColumnWriter object is the record w, with the fields of the class.  *)
(* ByteBuffer, StatsRecorder, BitUtils and the typed subclasses' row write *)
(* are not part of ColumnWriter.cpp; they are modelled from their contract.*)
(***************************************************************************)
EXTENDS Integers, Sequences, FiniteSets, TLC

VARIABLES
    ISNULL_ALIGNMENT,       \* process-wide static, ColumnWriter.cpp:8
    ISNULL_PADDING_BUFFER,  \* process-wide static, ColumnWriter.cpp:9
    w,                      \* the ColumnWriter instance
    driver,                 \* the caller: how many calls it makes
    lastOp,                 \* history: the operation called last
    ret,                    \* history: what the last accessor returned
    calls,                  \* history: how often each operation was called
    hist,                   \* history: rows, pixels and boundaries of the chunk
    ref,                    \* a writer constructed when the chunk began and
                            \* driven by the same calls since
    pair                    \* SpecTwo: two writers, one per thread

vars == <<ISNULL_ALIGNMENT, ISNULL_PADDING_BUFFER, w, driver, lastOp, ret,
          calls, hist, ref,
         pair>>

-----------------------------------------------------------------------------
(* Bounds of the model *)

(* The caller of Spec makes at most MaxOps state-changing calls (row writes,
   newPixel, flush, reset) before it closes the writer. *)
MaxOps == 6

(* The caller of SpecWide makes at most MaxOpsWide such calls, at most
   MaxCallsWide of them other than row writes. *)
MaxOpsWide == 11
MaxCallsWide == 1

(* Each of the two threads of SpecTwo makes at most MaxOpsEach calls on its
   writer. *)
MaxOpsEach == 3

(* The value the caller feeds with its k-th row; a typed subclass writes it
   as one byte.  The values differ from each other, from 0 (padding) and from
   the bitmap bytes of pixels of up to three rows, so that the place of
   every byte of a chunk can be told. *)
ValueOfRow(k) == 170 + k

LITTLE_ENDIAN == "PIXELS_LITTLE_ENDIAN"
BIG_ENDIAN == "PIXELS_BIG_ENDIAN"

-----------------------------------------------------------------------------
(* Arithmetic helpers *)

Pow2(n) == CASE n = 0 -> 1 [] n = 1 -> 2 [] n = 2 -> 4 [] n = 3 -> 8
             [] n = 4 -> 16 [] n = 5 -> 32 [] n = 6 -> 64 [] OTHER -> 128

CeilDiv(a, b) == (a + b - 1) \div b

RECURSIVE SumOver(_, _)
SumOver(f, S) ==
    IF S = {} THEN 0
    ELSE LET x == CHOOSE y \in S : TRUE IN f[x] + SumOver(f, S \ {x})

Zeros(n) == [i \in 1..n |-> 0]

-----------------------------------------------------------------------------
(* ByteBuffer: storage with a read and a write cursor *)

NewByteBuffer == [bytes |-> <<>>, rpos |-> 0, wpos |-> 0]

getWritePos(b) == b.wpos
getReadPos(b) == b.rpos

(* putBytes writes data at the write cursor, over whatever the storage holds
   there, growing the storage when needed, and advances the cursor. *)
putBytes(b, data) ==
    LET n == Len(data)
        end == b.wpos + n
        tail == IF Len(b.bytes) > end
                THEN SubSeq(b.bytes, end + 1, Len(b.bytes)) ELSE <<>>
    IN [b EXCEPT !.bytes = SubSeq(b.bytes, 1, b.wpos) \o data \o tail,
                 !.wpos = end]

(* resetPosition rewinds both cursors; the storage is kept. *)
resetPosition(b) == [b EXCEPT !.rpos = 0, !.wpos = 0]

(* clear releases the storage. *)
clear(b) == [bytes |-> <<>>, rpos |-> 0, wpos |-> 0]

(* The bytes between the cursors. *)
Unconsumed(b) == SubSeq(b.bytes, b.rpos + 1, b.wpos)

-----------------------------------------------------------------------------
(* BitUtils::bitWiseCompact: the first length flags packed into
   ceil(length / 8) bytes, the bit order given by byteOrder. *)

BitWeight(j, byteOrder) ==
    IF byteOrder = LITTLE_ENDIAN THEN Pow2(j) ELSE Pow2(7 - j)

bitWiseCompact(values, length, byteOrder) ==
    [k \in 1..CeilDiv(length, 8) |->
        LET bits == {j \in 0..7 : /\ 8 * (k - 1) + j + 1 <= length
                                  /\ values[8 * (k - 1) + j + 1]}
        IN SumOver([j \in 0..7 |-> BitWeight(j, byteOrder)], bits)]

-----------------------------------------------------------------------------
(* StatsRecorder *)

EmptyRecorder == [numberOfValues |-> 0, hasNull |-> FALSE, sum |-> 0]

recordValue(r, v) ==
    [r EXCEPT !.numberOfValues = @ + 1, !.sum = @ + v]

setHasNull(r) == [r EXCEPT !.hasNull = TRUE]

merge(r, other) ==
    [numberOfValues |-> r.numberOfValues + other.numberOfValues,
     hasNull |-> r.hasNull \/ other.hasNull,
     sum |-> r.sum + other.sum]

serialize(r) ==
    [numberOfValues |-> r.numberOfValues, hasNull |-> r.hasNull,
     intStats |-> [sum |-> r.sum]]

-----------------------------------------------------------------------------
(* pixels::proto::ColumnChunkIndex *)

(* A default-constructed index record; also what Clear() leaves. *)
EmptyColumnChunkIndex ==
    [littleEndian |-> FALSE, nullsPadding |-> FALSE, isNullAlignment |-> 0,
     isNullOffset |-> 0, pixelPositions |-> <<>>, pixelStatistics |-> <<>>]

EmptyColumnStatistic == [numberOfValues |-> 0, hasNull |-> FALSE]

-----------------------------------------------------------------------------
(* ColumnWriter *)

(* The members the constructor's initialiser list and body do not name.  The
   class declaration is not part of ColumnWriter.cpp; reset is documented to
   restore the state of construction by zeroing the two positions and
   emptying the recorders and the chunk-stat record, so these start at 0,
   false and empty. *)
DeclaredDefaults ==
    [columnChunkStat |-> EmptyColumnStatistic,
     pixelStatRecorder |-> EmptyRecorder,
     columnChunkStatRecorder |-> EmptyRecorder,
     lastPixelPosition |-> 0,
     curPixelPosition |-> 0,
     curPixelEleIndex |-> 0,
     curPixelVectorIndex |-> 0,
     curPixelIsNullIndex |-> 0,
     hasNull |-> FALSE]

(* The constructor, lines 93-108. *)
ColumnWriter(stride, order) ==
    [pixelStride |-> stride,
     byteOrder |-> order,
     nullsPadding |-> FALSE,
     isNull |-> [i \in 1..stride |-> FALSE],
     outputStream |-> NewByteBuffer,
     isNullStream |-> NewByteBuffer,
     columnChunkIndex |->
        [EmptyColumnChunkIndex EXCEPT
            !.littleEndian = (order = LITTLE_ENDIAN),
            !.nullsPadding = FALSE,
            !.isNullAlignment = ISNULL_ALIGNMENT],
     columnChunkStat |-> DeclaredDefaults.columnChunkStat,
     pixelStatRecorder |-> DeclaredDefaults.pixelStatRecorder,
     columnChunkStatRecorder |-> DeclaredDefaults.columnChunkStatRecorder,
     lastPixelPosition |-> DeclaredDefaults.lastPixelPosition,
     curPixelPosition |-> DeclaredDefaults.curPixelPosition,
     curPixelEleIndex |-> DeclaredDefaults.curPixelEleIndex,
     curPixelVectorIndex |-> DeclaredDefaults.curPixelVectorIndex,
     curPixelIsNullIndex |-> DeclaredDefaults.curPixelIsNullIndex,
     hasNull |-> DeclaredDefaults.hasNull]

getColumnChunkContent(s) == Unconsumed(s.outputStream)

(* Variant: the size is that of the buffer's storage. *)
getColumnChunkSize_storage(s) == Len(s.outputStream.bytes)

getColumnChunkSize(s) ==
    getWritePos(s.outputStream) - getReadPos(s.outputStream)

getNewColumnChunkIndex(s) == EmptyColumnChunkIndex

getColumnChunkIndex(s) == s.columnChunkIndex

getColumnChunkEncoding(s) == [kind |-> "NONE"]

(* newPixel, line 52: the bitmap is emitted only for a pixel with a null. *)
EmitsBitmap(s) == s.hasNull

(* Variant: the flags of a whole stride are packed. *)
PackedNulls_stride(s) == bitWiseCompact(s.isNull, s.pixelStride, s.byteOrder)

(* newPixel, line 53: the flags packed are those of the rows of this pixel. *)
PackedNulls(s) == bitWiseCompact(s.isNull, s.curPixelIsNullIndex, s.byteOrder)

(* Variant: the position appended is the one just recorded. *)
PositionToAdd_cur(s) == s.curPixelPosition

(* newPixel, line 66: the position appended is lastPixelPosition, read after
   curPixelPosition was set (line 57) and before it is advanced (line 70). *)
PositionToAdd(s) == s.lastPixelPosition

(* Variant: the chunk recorder takes the pixel's statistics in place of its
   own. *)
ChunkMerge_last(s1) == s1.pixelStatRecorder

(* newPixel, line 62: the pixel recorder is merged into the chunk recorder,
   after the has-null mark of line 55. *)
ChunkMerge(s1) == merge(s1.columnChunkStatRecorder, s1.pixelStatRecorder)

(* Variant: the statistics are serialized after the recorder was reset. *)
Snapshot_late(s2) == serialize(EmptyRecorder)

(* newPixel, line 65: the pixel statistics are serialized, by value, before
   the recorder is reset (line 71). *)
Snapshot(s2) == serialize(s2.pixelStatRecorder)

(* Variant: lastPixelPosition is left where it was. *)
AdvancedPosition_stays(s2) == s2.lastPixelPosition

(* newPixel, line 70: lastPixelPosition takes curPixelPosition. *)
AdvancedPosition(s2) == s2.curPixelPosition

(* Variant: the position is read from the null-bitmap buffer. *)
CurrentPosition_bitmap(s1) == getWritePos(s1.isNullStream)

(* newPixel, line 57: curPixelPosition is the write offset of the value
   buffer. *)
CurrentPosition(s1) == getWritePos(s1.outputStream)

newPixel(s) ==
    LET s1 == IF EmitsBitmap(s)
              THEN [s EXCEPT !.isNullStream = putBytes(@, PackedNulls(s)),
                             !.pixelStatRecorder = setHasNull(@)]
              ELSE s
        s2 == [s1 EXCEPT !.curPixelPosition = CurrentPosition(s1),
                         !.curPixelEleIndex = 0,
                         !.curPixelVectorIndex = 0,
                         !.curPixelIsNullIndex = 0,
                         !.columnChunkStatRecorder = ChunkMerge(s1)]
        pixelStat == [statistic |-> Snapshot(s2)]
    IN [s2 EXCEPT !.columnChunkIndex.pixelPositions =
                      Append(@, PositionToAdd(s2)),
                  !.columnChunkIndex.pixelStatistics = Append(@, pixelStat),
                  !.lastPixelPosition = AdvancedPosition(s2),
                  !.pixelStatRecorder = EmptyRecorder,
                  !.hasNull = FALSE]

(* Variant: a flush with no pixel pending closes one all the same. *)
PixelPending_always(s) == s.curPixelEleIndex >= 0

(* Variant: a flush closes no pixel. *)
PixelPending_never(s) == FALSE

(* flush, line 38: a pending partial pixel is closed first. *)
PixelPending(s) == s.curPixelEleIndex > 0

(* Variant: the padding is the remainder, not its complement. *)
AlignBytes_rem(off) ==
    IF ISNULL_ALIGNMENT # 0 THEN off % ISNULL_ALIGNMENT ELSE 0

(* Variant: a whole alignment unit of padding at an aligned offset. *)
AlignBytes_full(off) ==
    IF ISNULL_ALIGNMENT # 0
    THEN ISNULL_ALIGNMENT - (off % ISNULL_ALIGNMENT)
    ELSE 0

(* flush, lines 42-43: the number of padding bytes at write offset off. *)
AlignBytes(off) ==
    IF ISNULL_ALIGNMENT # 0 /\ off % ISNULL_ALIGNMENT # 0
    THEN ISNULL_ALIGNMENT - (off % ISNULL_ALIGNMENT)
    ELSE 0

(* Variant: the whole storage is appended, the cursors ignored. *)
BitmapToAppend_storage(s) == s.isNullStream.bytes

(* flush, line 48: the bytes of the null-bitmap buffer appended to the chunk. *)
BitmapToAppend(s) == Unconsumed(s.isNullStream)

(* flush, lines 41-48: padding, isNullOffset, then the bitmap. *)
AppendBitmap(s1) ==
    LET off == getWritePos(s1.outputStream)
        pad == AlignBytes(off)
        s2 == [s1 EXCEPT !.outputStream =
                   putBytes(@, SubSeq(ISNULL_PADDING_BUFFER, 1, pad))]
        s3 == [s2 EXCEPT !.columnChunkIndex.isNullOffset = off + pad]
    IN [s3 EXCEPT !.outputStream = putBytes(@, BitmapToAppend(s3))]

(* Variant: a flush of a chunk whose isNullOffset is set already does
   nothing. *)
flush_once(s) ==
    IF s.columnChunkIndex.isNullOffset > 0
    THEN s
    ELSE AppendBitmap(IF PixelPending(s) THEN newPixel(s) ELSE s)

flush(s) == AppendBitmap(IF PixelPending(s) THEN newPixel(s) ELSE s)

(* Variant: reset also starts a new pixel: the counters are zeroed and
   hasNull is cleared. *)
reset_full(s) ==
    [s EXCEPT !.lastPixelPosition = 0,
              !.curPixelPosition = 0,
              !.curPixelEleIndex = 0,
              !.curPixelVectorIndex = 0,
              !.curPixelIsNullIndex = 0,
              !.hasNull = FALSE,
              !.columnChunkIndex = EmptyColumnChunkIndex,
              !.columnChunkStat = EmptyColumnStatistic,
              !.pixelStatRecorder = EmptyRecorder,
              !.columnChunkStatRecorder = EmptyRecorder,
              !.outputStream = resetPosition(@),
              !.isNullStream = resetPosition(@)]

(* Variant: reset empties the two sequences of the index and leaves its
   other fields. *)
reset_lists(s) ==
    [s EXCEPT !.lastPixelPosition = 0,
              !.curPixelPosition = 0,
              !.columnChunkIndex.pixelPositions = <<>>,
              !.columnChunkIndex.pixelStatistics = <<>>,
              !.columnChunkStat = EmptyColumnStatistic,
              !.pixelStatRecorder = EmptyRecorder,
              !.columnChunkStatRecorder = EmptyRecorder,
              !.outputStream = resetPosition(@),
              !.isNullStream = resetPosition(@)]

reset(s) ==
    [s EXCEPT !.lastPixelPosition = 0,
              !.curPixelPosition = 0,
              !.columnChunkIndex = EmptyColumnChunkIndex,
              !.columnChunkStat = EmptyColumnStatistic,
              !.pixelStatRecorder = EmptyRecorder,
              !.columnChunkStatRecorder = EmptyRecorder,
              !.outputStream = resetPosition(@),
              !.isNullStream = resetPosition(@)]

(* Variant: close rewinds the buffers and keeps their storage. *)
close_rewind(s) ==
    [s EXCEPT !.outputStream = resetPosition(@),
              !.isNullStream = resetPosition(@)]

close(s) ==
    [s EXCEPT !.outputStream = clear(@), !.isNullStream = clear(@)]

(* A typed subclass's write of one row: the null flag goes to the
   null-presence buffer, a present value goes to the value buffer (no bytes
   for a null, nullsPadding being false) and to the pixel recorder; when the
   pixel has pixelStride rows the subclass calls newPixel. *)
writeRow(s, null, v) ==
    LET s1 == [s EXCEPT !.isNull[s.curPixelIsNullIndex + 1] = null,
                        !.curPixelIsNullIndex = @ + 1,
                        !.curPixelEleIndex = @ + 1,
                        !.curPixelVectorIndex = @ + 1,
                        !.hasNull = @ \/ null,
                        !.outputStream =
                            IF null THEN @ ELSE putBytes(@, <<v>>),
                        !.pixelStatRecorder =
                            IF null THEN @ ELSE recordValue(@, v)]
    IN IF s1.curPixelEleIndex >= s1.pixelStride THEN newPixel(s1) ELSE s1

-----------------------------------------------------------------------------
(* The state machine *)

(* The configurations a writer is constructed under: pixel stride, null-bitmap
   alignment, byte order. *)
Configs ==
    {[stride |-> 2, alignment |-> 4, order |-> LITTLE_ENDIAN],
     [stride |-> 3, alignment |-> 0, order |-> BIG_ENDIAN],
     [stride |-> 2, alignment |-> 2, order |-> BIG_ENDIAN]}

ConfigsWide ==
    {[stride |-> 9, alignment |-> 4, order |-> LITTLE_ENDIAN],
     [stride |-> 9, alignment |-> 0, order |-> BIG_ENDIAN]}

NoRet == [op |-> "none"]

(* The calls made so far: all state-changing ones, the row writes among
   them, and the others. *)
NoCalls == [ops |-> 0, rows |-> 0, other |-> 0]

CanWrite == calls.ops < driver.ops

CanCall == calls.ops < driver.ops /\ calls.other < driver.calls

Wrote == [calls EXCEPT !.ops = @ + 1, !.rows = @ + 1]

Called == [calls EXCEPT !.ops = @ + 1, !.other = @ + 1]

(* The history of a chunk: the rows written to it, their value bytes, the
   null flags of the rows of each pixel closed in it, the write offset of the
   value buffer at each newPixel call, the explicit newPixel calls and the
   flushes; curRows are the null flags of the rows written since the last
   newPixel call; carried is the number of rows that were pending when the
   chunk began; clean says the chunk began at construction or at a reset
   that followed a flush; curValues are the values of the present rows
   written since the last newPixel call, pixelValues those of each pixel
   closed in the chunk. *)
NewChunk(cur, curVals, isClean) ==
    [rows |-> 0, valueBytes |-> <<>>, pixels |-> <<>>, curRows |-> cur,
     boundaries |-> <<>>, forced |-> 0, flushes |-> 0, carried |-> Len(cur),
     clean |-> isClean, pixelValues |-> <<>>, curValues |-> curVals]

PixelClosed(h, offset) ==
    [h EXCEPT !.pixels = Append(@, h.curRows),
              !.curRows = <<>>,
              !.pixelValues = Append(@, h.curValues),
              !.curValues = <<>>,
              !.boundaries = Append(@, offset)]

InitWith(configs, ops, others) ==
    /\ \E c \in configs :
          /\ ISNULL_ALIGNMENT = c.alignment
          /\ ISNULL_PADDING_BUFFER = Zeros(c.alignment)
          /\ w = ColumnWriter(c.stride, c.order)
          /\ ref = ColumnWriter(c.stride, c.order)
    /\ driver = [ops |-> ops, calls |-> others]
    /\ lastOp = "construct"
    /\ ret = NoRet
    /\ calls = NoCalls
    /\ hist = NewChunk(<<>>, <<>>, TRUE)
    /\ pair = <<>>

Init == InitWith(Configs, MaxOps, MaxOps)

InitWide == InitWith(ConfigsWide, MaxOpsWide, MaxCallsWide)

Statics == <<ISNULL_ALIGNMENT, ISNULL_PADDING_BUFFER, driver, pair>>

Open == lastOp # "close"

WriteRow ==
    /\ Open
    /\ CanWrite
    /\ w.curPixelIsNullIndex < w.pixelStride
    /\ \E null \in BOOLEAN :
          LET v == ValueOfRow(calls.rows + 1)
              h1 == [hist EXCEPT
                        !.rows = @ + 1,
                        !.valueBytes = IF null THEN @ ELSE Append(@, v),
                        !.curRows = Append(@, null),
                        !.curValues = IF null THEN @ ELSE Append(@, v)]
              offset == getWritePos(w.outputStream) + (IF null THEN 0 ELSE 1)
          IN /\ w' = writeRow(w, null, v)
             /\ ref' = writeRow(ref, null, v)
             /\ hist' = IF Len(h1.curRows) >= w.pixelStride
                        THEN PixelClosed(h1, offset) ELSE h1
    /\ calls' = Wrote
    /\ lastOp' = "write"
    /\ ret' = NoRet
    /\ UNCHANGED Statics

NewPixel ==
    /\ Open
    /\ CanCall
    /\ w' = newPixel(w)
    /\ ref' = newPixel(ref)
    /\ hist' = [PixelClosed(hist, getWritePos(w.outputStream))
                    EXCEPT !.forced = @ + 1]
    /\ calls' = Called
    /\ lastOp' = "newPixel"
    /\ ret' = NoRet
    /\ UNCHANGED Statics

Flush ==
    /\ Open
    /\ CanCall
    /\ w' = flush(w)
    /\ ref' = flush(ref)
    /\ hist' = [(IF hist.curRows # <<>>
                  THEN PixelClosed(hist, getWritePos(w.outputStream))
                  ELSE hist)
                    EXCEPT !.flushes = @ + 1]
    /\ calls' = Called
    /\ lastOp' = "flush"
    /\ ret' = NoRet
    /\ UNCHANGED Statics

Reset ==
    /\ Open
    /\ CanCall
    /\ w' = reset(w)
    /\ ref' = ColumnWriter(w.pixelStride, w.byteOrder)
    /\ hist' = NewChunk(hist.curRows, hist.curValues, lastOp = "flush")
    /\ calls' = Called
    /\ lastOp' = "reset"
    /\ ret' = NoRet
    /\ UNCHANGED Statics

Close ==
    /\ w' = close(w)
    /\ ref' = close(ref)
    /\ lastOp' = "close"
    /\ ret' = NoRet
    /\ UNCHANGED <<Statics, calls, hist>>

Returns(op, value) ==
    /\ Open
    /\ ret' = [op |-> op, value |-> value]
    /\ UNCHANGED <<Statics, w, ref, lastOp, calls, hist>>

GetColumnChunkContent ==
    Returns("getColumnChunkContent", getColumnChunkContent(w))

GetColumnChunkSize == Returns("getColumnChunkSize", getColumnChunkSize(w))

GetNewColumnChunkIndex ==
    Returns("getNewColumnChunkIndex", getNewColumnChunkIndex(w))

GetColumnChunkIndex == Returns("getColumnChunkIndex", getColumnChunkIndex(w))

GetColumnChunkEncoding ==
    Returns("getColumnChunkEncoding", getColumnChunkEncoding(w))

Next ==
    \/ WriteRow
    \/ NewPixel
    \/ Flush
    \/ Reset
    \/ Close
    \/ GetColumnChunkContent
    \/ GetColumnChunkSize
    \/ GetNewColumnChunkIndex
    \/ GetColumnChunkIndex
    \/ GetColumnChunkEncoding

Spec == Init /\ [][Next]_vars

(* One chunk of a writer with a stride above eight rows: row writes, newPixel
   and flush. *)
NextWide ==
    \/ WriteRow
    \/ NewPixel
    \/ Flush

SpecWide == InitWide /\ [][NextWide]_vars

-----------------------------------------------------------------------------
(* Two writers, each driven by a thread of its own.  The writers share the
   two process-wide statics and nothing else; no operation assigns to a
   static, so a call is one step. *)

Writers == {1, 2}

StrideOf(i) == IF i = 1 THEN 2 ELSE 3

OrderOf(i) == IF i = 1 THEN LITTLE_ENDIAN ELSE BIG_ENDIAN

AlignmentsTwo == {4, 2}

(* The calls thread i made on its writer, and the bytes of the padding buffer
   each flush among them read. *)
InitTwo ==
    /\ \E a \in AlignmentsTwo :
          /\ ISNULL_ALIGNMENT = a
          /\ ISNULL_PADDING_BUFFER = Zeros(a)
    /\ pair = [i \in Writers |->
                  [w |-> ColumnWriter(StrideOf(i), OrderOf(i)),
                   log |-> <<>>, rows |-> 0, reads |-> <<>>]]
    /\ w = ColumnWriter(StrideOf(1), OrderOf(1))
    /\ ref = ColumnWriter(StrideOf(1), OrderOf(1))
    /\ driver = [ops |-> MaxOpsEach, calls |-> MaxOpsEach]
    /\ lastOp = "construct"
    /\ ret = NoRet
    /\ calls = NoCalls
    /\ hist = NewChunk(<<>>, <<>>, TRUE)

OpenOf(i) ==
    IF pair[i].log = <<>> THEN TRUE
    ELSE pair[i].log[Len(pair[i].log)].op # "close"

CanCallOf(i) == OpenOf(i) /\ Len(pair[i].log) < driver.ops

Single == <<w, ref, driver, lastOp, ret, calls, hist>>

Shared == <<ISNULL_ALIGNMENT, ISNULL_PADDING_BUFFER>>

TwoWriteRow(i) ==
    /\ CanCallOf(i)
    /\ pair[i].w.curPixelIsNullIndex < pair[i].w.pixelStride
    /\ \E null \in BOOLEAN :
          LET v == ValueOfRow(16 * i + pair[i].rows + 1)
          IN pair' = [pair EXCEPT ![i] =
                 [@ EXCEPT !.w = writeRow(@, null, v),
                           !.rows = @ + 1,
                           !.log = Append(@, [op |-> "write", null |-> null,
                                              v |-> v])]]
    /\ UNCHANGED <<Shared, Single>>

TwoNewPixel(i) ==
    /\ CanCallOf(i)
    /\ pair' = [pair EXCEPT ![i] =
           [@ EXCEPT !.w = newPixel(@),
                     !.log = Append(@, [op |-> "newPixel"])]]
    /\ UNCHANGED <<Shared, Single>>

TwoFlush(i) ==
    /\ CanCallOf(i)
    /\ pair' = [pair EXCEPT ![i] =
           [@ EXCEPT !.w = flush(@),
                     !.reads = Append(@,
                         flush(pair[i].w).columnChunkIndex.isNullOffset
                           - getWritePos(pair[i].w.outputStream)),
                     !.log = Append(@, [op |-> "flush"])]]
    /\ UNCHANGED <<Shared, Single>>

TwoReset(i) ==
    /\ CanCallOf(i)
    /\ pair' = [pair EXCEPT ![i] =
           [@ EXCEPT !.w = reset(@),
                     !.log = Append(@, [op |-> "reset"])]]
    /\ UNCHANGED <<Shared, Single>>

TwoClose(i) ==
    /\ CanCallOf(i)
    /\ pair' = [pair EXCEPT ![i] =
           [@ EXCEPT !.w = close(@),
                     !.log = Append(@, [op |-> "close"])]]
    /\ UNCHANGED <<Shared, Single>>

NextTwo ==
    \/ \E i \in Writers : TwoWriteRow(i)
    \/ \E i \in Writers : TwoNewPixel(i)
    \/ \E i \in Writers : TwoFlush(i)
    \/ \E i \in Writers : TwoReset(i)
    \/ \E i \in Writers : TwoClose(i)

SpecTwo == InitTwo /\ [][NextTwo]_vars

-----------------------------------------------------------------------------
(* Properties *)

Index == w.columnChunkIndex

Content == getColumnChunkContent(w)

Bitmap == Unconsumed(w.isNullStream)

HasNullRow(rows) == \E i \in 1..Len(rows) : rows[i]

(* The padding that brings offset off to a multiple of the alignment. *)
Padding(off) ==
    IF ISNULL_ALIGNMENT = 0 THEN 0
    ELSE CHOOSE p \in 0..(ISNULL_ALIGNMENT - 1) :
            (off + p) % ISNULL_ALIGNMENT = 0

(* The bitmap of a chunk whose closed pixels have the given rows: the packed
   flags of every pixel that has a null, in pixel order. *)
RECURSIVE BitmapOf(_, _)
BitmapOf(pixels, order) ==
    IF pixels = <<>> THEN <<>>
    ELSE LET p == Head(pixels)
         IN (IF HasNullRow(p) THEN bitWiseCompact(p, Len(p), order) ELSE <<>>)
            \o BitmapOf(Tail(pixels), order)

RECURSIVE BitmapLengthOf(_)
BitmapLengthOf(pixels) ==
    IF pixels = <<>> THEN 0
    ELSE LET p == Head(pixels)
         IN (IF HasNullRow(p) THEN CeilDiv(Len(p), 8) ELSE 0)
            + BitmapLengthOf(Tail(pixels))

(* A step that is a call of flush. *)
FlushStep == lastOp' = "flush" /\ calls'.ops = calls.ops + 1

(* C1: after every newPixel call since construction or reset, pixelPositions
   and pixelStatistics have the same length, pixelPositions[0] is 0, and every
   later entry is the write offset of the value buffer recorded at the
   newPixel call before (hist.boundaries, one pixel behind). *)
C1_PositionParity ==
    /\ Len(Index.pixelPositions) = Len(Index.pixelStatistics)
    /\ Len(Index.pixelPositions) = Len(hist.boundaries)
    /\ \A i \in 1..Len(Index.pixelPositions) :
          Index.pixelPositions[i] =
              IF i = 1 THEN 0 ELSE hist.boundaries[i - 1]

C1_Witness ==
    /\ lastOp = "newPixel"
    /\ Len(Index.pixelPositions) = 3
    /\ Index.pixelPositions[2] > 0
    /\ Index.pixelPositions[3] > Index.pixelPositions[2]
    /\ getWritePos(w.outputStream) > Index.pixelPositions[3]

(* C2: a flush under an alignment above 0 leaves isNullOffset a multiple of
   it; a flush under alignment 0 leaves isNullOffset at the write offset the
   value buffer had before, and appends nothing but the bitmap. *)
C2_FlushAligns ==
    [][FlushStep =>
        IF ISNULL_ALIGNMENT > 0
        THEN w'.columnChunkIndex.isNullOffset % ISNULL_ALIGNMENT = 0
        ELSE /\ w'.columnChunkIndex.isNullOffset = getWritePos(w.outputStream)
             /\ Unconsumed(w'.outputStream) =
                    Unconsumed(w.outputStream) \o Unconsumed(w'.isNullStream)
      ]_vars

C2_Witness ==
    /\ lastOp = "flush"
    /\ ISNULL_ALIGNMENT = 4
    /\ Len(hist.valueBytes) = 3
    /\ Index.isNullOffset = 4
    /\ Len(Bitmap) = 1
    /\ getColumnChunkSize(w) = 5

(* C3: after the one flush of a chunk, the content is the value bytes of the
   rows in order, then the least padding to the alignment, then the bitmap
   bytes of the pixels in order; isNullOffset is the start of the bitmap and
   the chunk size is isNullOffset plus the bitmap length. *)
C3_ChunkLayout ==
    (lastOp = "flush" /\ hist.flushes = 1) =>
        LET p == Padding(Len(hist.valueBytes))
            bitmap == BitmapOf(hist.pixels, w.byteOrder)
        IN /\ Content = hist.valueBytes \o Zeros(p) \o bitmap
           /\ Bitmap = bitmap
           /\ Index.isNullOffset = Len(hist.valueBytes) + p
           /\ getColumnChunkSize(w) = Index.isNullOffset + Len(Bitmap)

C3_Witness ==
    /\ lastOp = "flush"
    /\ hist.flushes = 1
    /\ calls.other = 3
    /\ Len(hist.valueBytes) = 1
    /\ ISNULL_ALIGNMENT = 4
    /\ Len(Bitmap) = 1
    /\ Len(w.isNullStream.bytes) = 1
    /\ Len(Content) = 5

(* C4: a pixel without a null adds nothing to the null-bitmap buffer, a pixel
   of n rows with a null adds ceil(n / 8) bytes: the bitmap of a chunk is as
   long as the sum of ceil(n / 8) over its pixels that have a null. *)
C4_BitmapLength ==
    Open => Len(Bitmap) = BitmapLengthOf(hist.pixels)

C4_Witness ==
    /\ Len(hist.pixels) = 2
    /\ Len(hist.pixels[1]) = 9
    /\ HasNullRow(hist.pixels[1])
    /\ Len(hist.pixels[2]) = 1
    /\ ~HasNullRow(hist.pixels[2])
    /\ Len(Bitmap) = 2

(* The end-to-end scenario: stride 2, alignment 4, a writer just
   constructed. *)
Scenario ==
    w.pixelStride = 2 /\ ISNULL_ALIGNMENT = 4 /\ calls.ops = hist.rows + hist.flushes

AfterTwoRows ==
    Scenario /\ lastOp = "write" /\ calls = [ops |-> 2, rows |-> 2, other |-> 0]

AfterThirdRowAndFlush ==
    Scenario /\ lastOp = "flush" /\ calls = [ops |-> 4, rows |-> 3, other |-> 1]

(* C5 as stated: in the scenario pixelPositions is empty after the two rows
   and the newPixel they trigger, and has the one entry 0, beside one
   pixelStatistics entry, after the third row and the flush. *)
C5_AsStated ==
    /\ AfterTwoRows => Index.pixelPositions = <<>>
    /\ AfterThirdRowAndFlush =>
          /\ Index.pixelPositions = <<0>>
          /\ Len(Index.pixelStatistics) = 1

(* C5, amended: in the scenario pixelPositions has the one entry 0, beside
   one pixelStatistics entry, after the two rows and the newPixel they
   trigger; after the third row and the flush both have exactly two entries,
   the first position being 0. *)
C5_Scenario ==
    /\ AfterTwoRows =>
          /\ Index.pixelPositions = <<0>>
          /\ Len(Index.pixelStatistics) = 1
    /\ AfterThirdRowAndFlush =>
          /\ Len(Index.pixelPositions) = 2
          /\ Index.pixelPositions[1] = 0
          /\ Len(Index.pixelStatistics) = 2

C5_Witness ==
    /\ AfterThirdRowAndFlush
    /\ hist.pixels = << <<FALSE, TRUE>>, <<FALSE>> >>
    /\ Index.pixelPositions = <<0, 1>>
    /\ Bitmap = <<2>>
    /\ Index.isNullOffset = 4

(* The one flush of a chunk was the last call, and newPixel was called only
   by the row writes that filled a pixel and by that flush. *)
FlushedOnce == lastOp = "flush" /\ hist.flushes = 1 /\ hist.forced = 0

(* C6 as stated: every pixel boundary appends one entry to pixelPositions and
   one to pixelStatistics, and after N rows written to a fresh or reset
   writer and one final flush both have ceil(N / pixelStride) entries. *)
C6_AsStated ==
    /\ Len(Index.pixelPositions) = Len(hist.pixels)
    /\ Len(Index.pixelStatistics) = Len(hist.pixels)
    /\ FlushedOnce =>
          /\ Len(Index.pixelPositions) = CeilDiv(hist.rows, w.pixelStride)
          /\ Len(Index.pixelStatistics) = CeilDiv(hist.rows, w.pixelStride)

(* C6, amended: every pixel boundary (a newPixel call, a row write that fills
   the pixel, a flush with rows pending) appends one entry to pixelPositions
   and one to pixelStatistics, and after N rows written to a fresh writer, or
   to one reset while no row was pending, and one final flush both have
   ceil(N / pixelStride) entries. *)
C6_OnePerPixel ==
    /\ Len(Index.pixelPositions) = Len(hist.pixels)
    /\ Len(Index.pixelStatistics) = Len(hist.pixels)
    /\ (FlushedOnce /\ hist.carried = 0) =>
          /\ Len(Index.pixelPositions) = CeilDiv(hist.rows, w.pixelStride)
          /\ Len(Index.pixelStatistics) = CeilDiv(hist.rows, w.pixelStride)

C6_Witness ==
    /\ FlushedOnce
    /\ hist.carried = 0
    /\ calls.other = 2
    /\ w.pixelStride = 2
    /\ hist.rows = 3
    /\ Len(Index.pixelPositions) = 2

(* The index record the constructor leaves. *)
ConstructedIndex == ColumnWriter(w.pixelStride, w.byteOrder).columnChunkIndex

(* C7: before close, the index record carries the littleEndian, nullsPadding
   and isNullAlignment the constructor set. *)
C7_FlagsFixed ==
    Open =>
        /\ Index.littleEndian = ConstructedIndex.littleEndian
        /\ Index.nullsPadding = ConstructedIndex.nullsPadding
        /\ Index.isNullAlignment = ConstructedIndex.isNullAlignment

(* The state a reset is to restore, the index record apart. *)
RestoredButIndex ==
    /\ w.lastPixelPosition = 0
    /\ w.curPixelPosition = 0
    /\ w.curPixelEleIndex = 0
    /\ w.curPixelVectorIndex = 0
    /\ w.curPixelIsNullIndex = 0
    /\ ~w.hasNull
    /\ w.pixelStatRecorder = EmptyRecorder
    /\ w.columnChunkStatRecorder = EmptyRecorder
    /\ getReadPos(w.outputStream) = 0 /\ getWritePos(w.outputStream) = 0
    /\ getReadPos(w.isNullStream) = 0 /\ getWritePos(w.isNullStream) = 0

(* C8: a reset that follows a flush restores the state of construction, the
   index record included, and the rows written next yield the chunk bytes and
   the index they yield on a fresh writer (ref). *)
C8_ResetRestores ==
    /\ (lastOp = "reset" /\ hist.clean) =>
          RestoredButIndex /\ Index = ConstructedIndex
    /\ (Open /\ hist.clean) =>
          /\ Content = getColumnChunkContent(ref)
          /\ Index = getColumnChunkIndex(ref)

(* C8 but for the three flags of C7: the same with the index record compared
   field by field, littleEndian, nullsPadding and isNullAlignment left out. *)
SameButFlags(a, b) ==
    /\ a.isNullOffset = b.isNullOffset
    /\ a.pixelPositions = b.pixelPositions
    /\ a.pixelStatistics = b.pixelStatistics

C8_ButForFlags ==
    /\ (lastOp = "reset" /\ hist.clean) =>
          RestoredButIndex /\ SameButFlags(Index, ConstructedIndex)
    /\ (Open /\ hist.clean) =>
          /\ Content = getColumnChunkContent(ref)
          /\ SameButFlags(Index, getColumnChunkIndex(ref))
          /\ w.columnChunkStatRecorder = ref.columnChunkStatRecorder
          /\ w.pixelStatRecorder = ref.pixelStatRecorder

(* C9: after a reset, whatever the state before, the index record has no
   pixelPositions and no pixelStatistics, isNullOffset is 0, both recorders
   are empty; and one more reset changes nothing. *)
C9_ResetIdempotent ==
    lastOp = "reset" =>
        /\ Index.pixelPositions = <<>>
        /\ Index.pixelStatistics = <<>>
        /\ Index.isNullOffset = 0
        /\ w.pixelStatRecorder = EmptyRecorder
        /\ w.columnChunkStatRecorder = EmptyRecorder
        /\ reset(w) = w

C9_Witness ==
    /\ lastOp = "reset"
    /\ calls.other = 3
    /\ Len(w.outputStream.bytes) = 5
    /\ Len(w.isNullStream.bytes) = 1
    /\ w.curPixelEleIndex = 1
    /\ w.hasNull

(* A step that is a flush right after a flush. *)
SecondFlushStep == FlushStep /\ lastOp = "flush"

(* What a flush right after a flush does to the value buffer: it appends the
   padding and the bitmap again, and isNullOffset is the new aligned offset. *)
AppendsAgain ==
    LET off == getWritePos(w.outputStream)
    IN /\ Unconsumed(w'.outputStream) =
              Unconsumed(w.outputStream) \o Zeros(Padding(off)) \o Bitmap
       /\ w'.columnChunkIndex.isNullOffset = off + Padding(off)

(* Only flush and reset change isNullOffset. *)
OffsetFrame ==
    w'.columnChunkIndex.isNullOffset # Index.isNullOffset =>
        lastOp' \in {"flush", "reset"} /\ calls'.ops = calls.ops + 1

(* C10 as stated: a flush right after a flush appends the bitmap a second
   time and makes isNullOffset the new, larger aligned offset; only flush and
   reset change isNullOffset. *)
C10_AsStated ==
    [][/\ SecondFlushStep =>
            /\ AppendsAgain
            /\ w'.columnChunkIndex.isNullOffset > Index.isNullOffset
       /\ OffsetFrame]_vars

(* C10, amended: a flush right after a flush appends the bitmap a second time
   and makes isNullOffset the new aligned offset, which is larger than the
   old one when the bitmap is not empty; when the bitmap is empty the second
   flush changes nothing.  Only flush and reset change isNullOffset. *)
C10_SecondFlush ==
    [][/\ SecondFlushStep =>
            /\ AppendsAgain
            /\ Bitmap # <<>> =>
                    w'.columnChunkIndex.isNullOffset > Index.isNullOffset
            /\ Bitmap = <<>> => w' = w
       /\ OffsetFrame]_vars

C10_Witness ==
    /\ lastOp = "flush"
    /\ hist.flushes = 2
    /\ Len(hist.valueBytes) = 1
    /\ Len(Bitmap) = 1
    /\ Index.isNullOffset = 8
    /\ Len(Content) = 9

RECURSIVE SumSeq(_)
SumSeq(s) == IF s = <<>> THEN 0 ELSE Head(s) + SumSeq(Tail(s))

(* The statistics of the entries of a pixelStatistics sequence taken
   together, in pixel order. *)
RECURSIVE MergedEntries(_)
MergedEntries(entries) ==
    IF entries = <<>>
    THEN [numberOfValues |-> 0, hasNull |-> FALSE, intStats |-> [sum |-> 0]]
    ELSE LET e == Head(entries).statistic
             rest == MergedEntries(Tail(entries))
         IN [numberOfValues |-> e.numberOfValues + rest.numberOfValues,
             hasNull |-> e.hasNull \/ rest.hasNull,
             intStats |-> [sum |-> e.intStats.sum + rest.intStats.sum]]

(* C11: the chunk recorder holds the statistics of all entries of
   pixelStatistics merged in pixel order, and it reports hasNull exactly when
   a pixel closed in the chunk had a null. *)
C11_ChunkAccumulates ==
    /\ serialize(w.columnChunkStatRecorder) =
          MergedEntries(Index.pixelStatistics)
    /\ w.columnChunkStatRecorder.hasNull <=>
          \E i \in 1..Len(hist.pixels) : HasNullRow(hist.pixels[i])

C11_Witness ==
    /\ Len(hist.pixels) = 3
    /\ HasNullRow(hist.pixels[2])
    /\ ~HasNullRow(hist.pixels[1])
    /\ ~HasNullRow(hist.pixels[3])
    /\ w.columnChunkStatRecorder.numberOfValues = 3
    /\ w.columnChunkStatRecorder.hasNull

(* C12: close is idempotent: closing a closed writer changes nothing, both
   buffers are cleared by the first call, and the second call has nothing to
   fail on. *)
C12_CloseIdempotent ==
    /\ close(close(w)) = close(w)
    /\ close(w).outputStream = NewByteBuffer
    /\ close(w).isNullStream = NewByteBuffer
    /\ lastOp = "close" =>
          /\ close(w) = w
          /\ w.outputStream.bytes = <<>>
          /\ w.isNullStream.bytes = <<>>

C12_Witness ==
    /\ lastOp = "close"
    /\ Len(hist.valueBytes) = 2
    /\ hist.flushes = 1
    /\ Len(hist.pixels) = 2
    /\ w.outputStream = NewByteBuffer
    /\ w.isNullStream = NewByteBuffer

ApplyCall(s, c) ==
    CASE c.op = "write" -> writeRow(s, c.null, c.v)
      [] c.op = "newPixel" -> newPixel(s)
      [] c.op = "flush" -> flush(s)
      [] c.op = "reset" -> reset(s)
      [] c.op = "close" -> close(s)

(* The writer a thread has when it makes the calls of log on writer s and no
   other thread runs. *)
RECURSIVE RunAlone(_, _)
RunAlone(s, log) ==
    IF log = <<>> THEN s ELSE RunAlone(ApplyCall(s, Head(log)), Tail(log))

(* C13: under every interleaving each of the two writers is the writer it
   would be had its thread run alone; the alignment and the padding buffer
   keep their initial values, and a flush reads at most alignment - 1 bytes
   of the buffer, never more than the buffer holds. *)
C13_NoInterference ==
    /\ \A i \in Writers :
          /\ pair[i].w =
                RunAlone(ColumnWriter(StrideOf(i), OrderOf(i)), pair[i].log)
          /\ \A k \in 1..Len(pair[i].reads) :
                /\ pair[i].reads[k] >= 0
                /\ pair[i].reads[k] <= ISNULL_ALIGNMENT - 1
                /\ pair[i].reads[k] <= Len(ISNULL_PADDING_BUFFER)
    /\ ISNULL_ALIGNMENT \in AlignmentsTwo
    /\ ISNULL_PADDING_BUFFER = Zeros(ISNULL_ALIGNMENT)

C13_Witness ==
    /\ ISNULL_ALIGNMENT = 4
    /\ pair[1].reads = <<3>>
    /\ pair[2].reads = <<2>>
    /\ Len(pair[1].log) = 3
    /\ Len(pair[2].log) = 3
    /\ pair[1].log[3].op = "close"
    /\ pair[1].w.outputStream = NewByteBuffer
    /\ getColumnChunkContent(pair[2].w) =
          <<ValueOfRow(33), ValueOfRow(34), 0, 0>>

(* What holds of writer s once newPixel has returned. *)
PixelStarted(s) ==
    /\ s.curPixelEleIndex = 0
    /\ s.curPixelVectorIndex = 0
    /\ s.curPixelIsNullIndex = 0
    /\ s.hasNull = FALSE
    /\ s.pixelStatRecorder = EmptyRecorder
    /\ s.lastPixelPosition = s.curPixelPosition
    /\ s.curPixelPosition = getWritePos(s.outputStream)

(* C14: after every newPixel call, from whatever state it is made, the three
   counters are 0, hasNull is false, the pixel recorder is empty and
   lastPixelPosition = curPixelPosition = the write offset of the value
   buffer; newPixel leaves the value buffer as it was. *)
C14_AfterNewPixel ==
    /\ PixelStarted(newPixel(w))
    /\ newPixel(w).outputStream = w.outputStream
    /\ lastOp = "newPixel" => PixelStarted(w)

C14_Witness ==
    /\ lastOp = "newPixel"
    /\ w.pixelStride = 3
    /\ hist.pixels = <<<<FALSE, TRUE>>>>
    /\ w.lastPixelPosition = 1
    /\ Index.pixelPositions = <<0>>
    /\ w.hasNull = FALSE

IsPrefix(a, b) == Len(a) <= Len(b) /\ SubSeq(b, 1, Len(a)) = a

(* The statistics of a pixel with null flags rows and present values
   values. *)
StatisticsOf(rows, values) ==
    [statistic |-> [numberOfValues |-> Len(values),
                    hasNull |-> HasNullRow(rows),
                    intStats |-> [sum |-> SumSeq(values)]]]

(* Entry i of pixelStatistics is the statistics of the rows accumulated for
   pixel i. *)
EntriesReflectPixels ==
    /\ Len(Index.pixelStatistics) = Len(hist.pixels)
    /\ \A i \in 1..Len(hist.pixels) :
          Index.pixelStatistics[i] =
              StatisticsOf(hist.pixels[i], hist.pixelValues[i])

ResetStep == lastOp' = "reset" /\ calls'.ops = calls.ops + 1

(* C15 as stated: in every state entry i of pixelStatistics reflects exactly
   the rows of pixel i. *)
C15_AsStated == Open => EntriesReflectPixels

(* C15, amended: in a chunk begun at construction or by a reset with no
   partial pixel pending, entry i of pixelStatistics is the statistics of
   exactly the rows of pixel i, its has-null mark included; and in any chunk
   no step other than reset changes an entry of pixelStatistics or of
   pixelPositions once it is appended. *)
C15_Snapshots ==
    [][/\ (lastOp' # "close" /\ hist'.carried = 0) => EntriesReflectPixels'
       /\ ~ResetStep =>
             /\ IsPrefix(Index.pixelStatistics, Index'.pixelStatistics)
             /\ IsPrefix(Index.pixelPositions, Index'.pixelPositions)]_vars

C15_Witness ==
    /\ lastOp = "flush"
    /\ hist.carried = 0
    /\ w.pixelStride = 2
    /\ hist.pixels = <<<<FALSE, TRUE>>, <<FALSE>>>>
    /\ Index.pixelStatistics[1] =
          StatisticsOf(<<FALSE, TRUE>>, hist.pixelValues[1])
    /\ Index.pixelStatistics[2].statistic.hasNull = FALSE
    /\ Index.pixelPositions = <<0, 1>>
    /\ w.pixelStatRecorder = EmptyRecorder

(* C16: in every state getColumnChunkSize is the length of what
   getColumnChunkContent returns, both being write cursor - read cursor of
   the value buffer; an accessor call leaves the writer and the statics as
   they were and returns what the writer holds: getNewColumnChunkIndex an
   empty record whatever the writer's own index is, getColumnChunkEncoding
   kind NONE. *)
C16_Accessors ==
    [][/\ getColumnChunkSize(w') = Len(getColumnChunkContent(w'))
       /\ getColumnChunkSize(w') =
             getWritePos(w'.outputStream) - getReadPos(w'.outputStream)
       /\ ret'.op # "none" =>
             /\ w' = w
             /\ UNCHANGED <<ISNULL_ALIGNMENT, ISNULL_PADDING_BUFFER>>
             /\ ret'.op = "getColumnChunkContent" =>
                   /\ ret'.value = Content
                   /\ Len(ret'.value) = getColumnChunkSize(w)
             /\ ret'.op = "getColumnChunkSize" =>
                   /\ ret'.value = Len(Content)
                   /\ ret'.value = w.outputStream.wpos - w.outputStream.rpos
             /\ ret'.op = "getColumnChunkIndex" => ret'.value = Index
             /\ ret'.op = "getNewColumnChunkIndex" =>
                   ret'.value = EmptyColumnChunkIndex
             /\ ret'.op = "getColumnChunkEncoding" => ret'.value.kind = "NONE"
      ]_vars

C16_Witness ==
    /\ ret.op = "getColumnChunkSize"
    /\ ret.value = 2
    /\ Content = <<ValueOfRow(4), ValueOfRow(5)>>
    /\ Len(w.outputStream.bytes) = 3
    /\ hist.rows = 2
    /\ Index # EmptyColumnChunkIndex

(* C17: the bytes newPixel appends to the null-bitmap buffer are the packing
   of the flags of the rows of the pixel being closed, whatever the entries
   of the null-presence buffer beyond the first curPixelIsNullIndex hold. *)
C17_StaleFlagsIgnored ==
    /\ \A alt \in [1..w.pixelStride -> BOOLEAN] :
          (\A j \in 1..w.curPixelIsNullIndex : alt[j] = w.isNull[j]) =>
              newPixel([w EXCEPT !.isNull = alt]).isNullStream =
                  newPixel(w).isNullStream
    /\ (Open /\ w.hasNull) =>
          Unconsumed(newPixel(w).isNullStream) =
              Bitmap \o bitWiseCompact(hist.curRows, Len(hist.curRows),
                                       w.byteOrder)
    /\ Open => Bitmap = BitmapOf(hist.pixels, w.byteOrder)

C17_Witness ==
    /\ lastOp = "newPixel"
    /\ w.pixelStride = 3
    /\ hist.pixels = <<<<FALSE, TRUE, TRUE>>, <<TRUE>>>>
    /\ w.isNull = <<TRUE, TRUE, TRUE>>
    /\ Bitmap = <<96, 128>>

(* C18: a reset leaves curPixelEleIndex, curPixelVectorIndex,
   curPixelIsNullIndex, hasNull and the null-presence buffer as they were;
   so after a reset with a partial pixel pending, a flush of the chunk, to
   which no row was written, leaves one entry in the index. *)
C18_ResetKeepsPixel ==
    [][/\ ResetStep =>
             /\ w'.curPixelEleIndex = w.curPixelEleIndex
             /\ w'.curPixelVectorIndex = w.curPixelVectorIndex
             /\ w'.curPixelIsNullIndex = w.curPixelIsNullIndex
             /\ w'.hasNull = w.hasNull
             /\ w'.isNull = w.isNull
       /\ (FlushStep /\ lastOp = "reset" /\ hist.carried > 0) =>
             /\ w.curPixelEleIndex > 0
             /\ hist'.rows = 0
             /\ Index.pixelPositions = <<>>
             /\ Len(Index'.pixelPositions) = 1
             /\ Len(Index'.pixelStatistics) = 1
      ]_vars

C18_Witness ==
    /\ lastOp = "flush"
    /\ hist.rows = 0
    /\ hist.carried = 1
    /\ hist.flushes = 1
    /\ hist.forced = 0
    /\ Len(Index.pixelPositions) = 1
    /\ hist.pixels = <<<<TRUE>>>>
    /\ Bitmap # <<>>

NonDecreasing(s) == \A i, j \in 1..Len(s) : i <= j => s[i] <= s[j]

(* The positions of a chunk flushed at most once are in order and within the
   value buffer. *)
PositionsInOrder ==
    /\ NonDecreasing(Index.pixelPositions)
    /\ \A i \in 1..Len(Index.pixelPositions) :
          Index.pixelPositions[i] <= w.lastPixelPosition
    /\ w.lastPixelPosition <= getWritePos(w.outputStream)

BeforeBitmap ==
    \A i \in 1..Len(Index.pixelPositions) :
        Index.pixelPositions[i] <= Index.isNullOffset

(* C19 as stated: in every state of a chunk with at most one flush the
   positions are in order, and in every such state past the flush every
   position is at most isNullOffset. *)
C19_AsStated ==
    (Open /\ hist.flushes <= 1) =>
        /\ PositionsInOrder
        /\ hist.flushes = 1 => BeforeBitmap

(* C19, amended: in every state of a chunk with at most one flush,
   pixelPositions is non-decreasing and every entry <= lastPixelPosition <=
   the write offset of the value buffer; in the state the flush leaves, every
   entry is <= isNullOffset. *)
C19_ArrivalOrder ==
    (Open /\ hist.flushes <= 1) =>
        /\ PositionsInOrder
        /\ (hist.flushes = 1 /\ lastOp = "flush") => BeforeBitmap

C19_Witness ==
    /\ lastOp = "flush"
    /\ hist.flushes = 1
    /\ w.pixelStride = 2
    /\ ISNULL_ALIGNMENT = 4
    /\ Index.pixelPositions = <<0, 1, 3>>
    /\ w.lastPixelPosition = 3
    /\ Index.isNullOffset = 4
    /\ Bitmap # <<>>

=============================================================================
